---- MODULE Spec2Model ----
(***************************************************************************)
(* Model of app.py, the Streamlit "chat with documentation" script.        *)
(*                                                                         *)
(* The script is re-executed from top to bottom on every user interaction  *)
(* and on every st.rerun().  One action of the model is one whole script   *)
(* run, from its first line to the st.rerun() that aborts it or to its     *)
(* last line; the user's interactions (radio, suggestion button, chat      *)
(* input) are separate actions that are possible only while the script is  *)
(* waiting at the end of a run.                                            *)
(***************************************************************************)
EXTENDS Integers, Sequences, FiniteSets, TLC

VARIABLES
    messages,               \* st.session_state.messages
    active_group_id,        \* st.session_state.active_group_id (radio key)
    suggestions,            \* st.session_state.suggestions
    last_fetched_group_id,  \* st.session_state.last_fetched_group_id
    API_KEY_CONFIGURED,     \* module global set by the secrets lookup
    pc,                     \* "run": a script run is due; "rest": the last
                            \* run reached the end of the script;
                            \* "exception": the last run died of an
                            \* uncaught exception
    clicked,                \* index of the suggestion button that triggered
                            \* the run due, 0 when none did
    prompt_from_chat,       \* value st.chat_input returns in the run due
    interaction,            \* the widget whose change triggered the chain
                            \* of runs in progress, "open" for the first
                            \* page load (history)
    remote_calls,           \* generate_content calls since the last user
                            \* interaction (history, saturates)
    suggested_for,          \* urls argument of the get_initial_suggestions
                            \* call whose result suggestions holds (history)
    answered_with           \* urls argument of the last generate_response
                            \* call (history)

vars == <<messages, active_group_id, suggestions, last_fetched_group_id,
          API_KEY_CONFIGURED, pc, clicked, prompt_from_chat, interaction,
          remote_calls, suggested_for, answered_with>>

----------------------------------------------------------------------------
(* Bounds *)

MaxSuggestions == 4      \* longest 'suggestions' list the remote model sends
MaxQuestions == 2        \* questions typed per scope
MaxCalls == 3            \* remote_calls saturates here

None == "None"

----------------------------------------------------------------------------
(* Constants of the script *)

GEMINI_DOCS_URLS == <<"docs", "docs/quickstart">>

MODEL_CAPABILITIES_URLS == <<"docs/text-generation", "docs/grounding">>

INITIAL_URL_GROUPS ==
    [g \in {"gemini-overview", "model-capabilities"} |->
        IF g = "gemini-overview"
        THEN [name |-> "Gemini Docs Overview", urls |-> GEMINI_DOCS_URLS]
        ELSE [name |-> "Model Capabilities", urls |-> MODEL_CAPABILITIES_URLS]]

GroupIds == DOMAIN INITIAL_URL_GROUPS

\* list(INITIAL_URL_GROUPS.keys())[0]
FirstGroupId == "gemini-overview"

----------------------------------------------------------------------------
(* Python values held in st.session_state.suggestions: whatever            *)
(* json.loads put under the "suggestions" key.                             *)

PyList(items) == [type |-> "list", items |-> items]
PyStr(chars) == [type |-> "str", items |-> chars]
PyInt == [type |-> "int", items |-> <<>>]     \* a non-zero number
PyNone == [type |-> "NoneType", items |-> <<>>]

\* bool(v), as "not v" and "v and ..." evaluate it
Truthy(v) ==
    CASE v.type \in {"list", "str"} -> v.items # <<>>
      [] v.type = "int" -> TRUE
      [] OTHER -> FALSE

\* does len(v) return, or raise TypeError
HasLen(v) == v.type \in {"list", "str"}

----------------------------------------------------------------------------
(* The remote model: model.generate_content(prompt) is opaque.  A reply    *)
(* either raises or carries a text; for the suggestions prompt the text is *)
(* described by what the regular expression and json.loads find in it.     *)

Min(a, b) == IF a < b THEN a ELSE b

SuggestionText(i) == "S" \o ToString(i)

\* the 'suggestions' values a reply can carry
SuggestionValues ==
    {PyList([i \in 1..n |-> SuggestionText(i)]) : n \in 0..MaxSuggestions}
    \cup {PyList([i \in 1..n |-> IF i = 1 THEN "" ELSE SuggestionText(i)]) :
              n \in 1..2}
    \cup {PyStr(<<"a", "b">>), PyStr(<<>>), PyInt, PyNone}

Reply(raises, fence, decodes, top, haskey, value) ==
    [raises |-> raises, fence |-> fence, decodes |-> decodes, top |-> top,
     haskey |-> haskey, value |-> value]

SuggestionReplies ==
    {Reply(TRUE, FALSE, FALSE, "object", FALSE, PyNone),    \* call raises
     Reply(FALSE, FALSE, FALSE, "object", FALSE, PyNone),   \* no json fence
     Reply(FALSE, TRUE, FALSE, "object", FALSE, PyNone),    \* not JSON
     Reply(FALSE, TRUE, TRUE, "array", FALSE, PyNone),      \* not a mapping
     Reply(FALSE, TRUE, TRUE, "object", FALSE, PyNone)}     \* key missing
    \cup {Reply(FALSE, TRUE, TRUE, "object", TRUE, v) : v \in SuggestionValues}

AnswerReplies ==
    {[raises |-> TRUE, text |-> "503 unavailable"],
     [raises |-> FALSE, text |-> "answer"]}

\* does get_initial_suggestions(urls) reach model.generate_content
SuggestionsCallsRemote(urls) == urls # <<>>

get_initial_suggestions(urls, reply) ==
    IF urls = <<>> THEN PyList(<<>>)
    ELSE IF reply.raises THEN PyList(<<>>)          \* except Exception
    ELSE IF ~reply.fence THEN PyList(<<>>)          \* json_match is None
    ELSE IF ~reply.decodes THEN PyList(<<>>)        \* JSONDecodeError caught
    ELSE IF reply.top # "object" THEN PyList(<<>>)  \* AttributeError caught
    ELSE IF reply.haskey THEN reply.value           \* data.get(key, [])
    ELSE PyList(<<>>)

ErrorPrefix == "Error al generar la respuesta: "

Content(fmt, arg) == [fmt |-> fmt, arg |-> arg]

generate_response(query, urls, reply) ==
    IF reply.raises THEN Content(ErrorPrefix, reply.text)
    ELSE Content("{}", reply.text)

\* WelcomeTurn with the role of the other party
WelcomeTurn_user_role(name) ==
    [role |-> "user", content |-> Content("welcome to '{}'", name)]

WelcomeTurn(name) ==
    [role |-> "assistant", content |-> Content("welcome to '{}'", name)]

----------------------------------------------------------------------------
(* Initial state: the first run has executed the session-state             *)
(* initialisation; the secrets lookup has decided API_KEY_CONFIGURED.      *)

Init ==
    /\ messages = <<>>
    /\ active_group_id = FirstGroupId
    /\ suggestions = PyList(<<>>)
    /\ last_fetched_group_id = None
    /\ API_KEY_CONFIGURED \in BOOLEAN
    /\ pc = "run"
    /\ clicked = 0
    /\ prompt_from_chat = None
    /\ interaction = "open"
    /\ remote_calls = 0
    /\ suggested_for = <<>>
    /\ answered_with = <<>>

active_group_name == INITIAL_URL_GROUPS[active_group_id].name

\* current_urls taken from the default group, not the active one
current_urls_default_group == INITIAL_URL_GROUPS[FirstGroupId].urls

current_urls == INITIAL_URL_GROUPS[active_group_id].urls

\* one more generate_content call
CallRemote == remote_calls' = Min(remote_calls + 1, MaxCalls)

\* st.rerun(), or the end of a run: button and chat-input values are
\* triggers, they are gone in the next run
ResetTriggers ==
    clicked' = 0 /\ prompt_from_chat' = None /\ UNCHANGED interaction

----------------------------------------------------------------------------
(* Script runs *)

\* ScopeChanged with the welcome turn appended instead of reseeding
ScopeChanged_appends_welcome ==
    /\ pc = "run"
    /\ active_group_id # last_fetched_group_id
    /\ messages' = Append(messages, WelcomeTurn(active_group_name))
    /\ suggestions' = PyList(<<>>)
    /\ last_fetched_group_id' = active_group_id
    /\ pc' = "run"
    /\ ResetTriggers
    /\ UNCHANGED <<active_group_id, API_KEY_CONFIGURED, remote_calls,
                   suggested_for, answered_with>>

\* ScopeChanged without "st.session_state.suggestions = []"
ScopeChanged_keeps_suggestions ==
    /\ pc = "run"
    /\ active_group_id # last_fetched_group_id
    /\ messages' = <<WelcomeTurn(active_group_name)>>
    /\ last_fetched_group_id' = active_group_id
    /\ pc' = "run"
    /\ ResetTriggers
    /\ UNCHANGED <<active_group_id, suggestions, API_KEY_CONFIGURED,
                   remote_calls, suggested_for, answered_with>>

\* a run that takes the branch "active_group_id != last_fetched_group_id"
ScopeChanged ==
    /\ pc = "run"
    /\ active_group_id # last_fetched_group_id
    /\ messages' = <<WelcomeTurn(active_group_name)>>
    /\ suggestions' = PyList(<<>>)
    /\ last_fetched_group_id' = active_group_id
    /\ pc' = "run"
    /\ ResetTriggers
    /\ UNCHANGED <<active_group_id, API_KEY_CONFIGURED, remote_calls,
                   suggested_for, answered_with>>

\* SuggestionLoadDue without "and API_KEY_CONFIGURED"
SuggestionLoadDue_ignores_key == ~Truthy(suggestions)

\* the condition of the suggestion-load block
SuggestionLoadDue == ~Truthy(suggestions) /\ API_KEY_CONFIGURED

\* a run that takes the branch "not suggestions and API_KEY_CONFIGURED"
SuggestionLoad ==
    /\ pc = "run"
    /\ active_group_id = last_fetched_group_id
    /\ SuggestionLoadDue
    /\ \E reply \in SuggestionReplies :
           suggestions' = get_initial_suggestions(current_urls, reply)
    /\ IF SuggestionsCallsRemote(current_urls)
       THEN CallRemote ELSE UNCHANGED remote_calls
    /\ suggested_for' = current_urls
    /\ pc' = "run"
    /\ ResetTriggers
    /\ UNCHANGED <<messages, active_group_id, last_fetched_group_id,
                   API_KEY_CONFIGURED, answered_with>>

\* ReachesChat with the suggestion-load block left out
ReachesChat_skips_load ==
    /\ pc = "run"
    /\ active_group_id = last_fetched_group_id

\* the run gets past both st.rerun() blocks and renders the transcript
ReachesChat ==
    /\ pc = "run"
    /\ active_group_id = last_fetched_group_id
    /\ ~SuggestionLoadDue

\* ButtonsShown without "and len(st.session_state.messages) <= 1"
ButtonsShown_ignores_transcript == Truthy(suggestions)

\* the condition of the suggestion-buttons block
ButtonsShown == Truthy(suggestions) /\ Len(messages) <= 1

\* a suggestion button returns True in this run
ButtonClicked ==
    ButtonsShown /\ HasLen(suggestions) /\ clicked \in 1..Len(suggestions.items)

\* user_prompt where the turn-processing block tests it
user_prompt ==
    IF prompt_from_chat # None THEN prompt_from_chat
    ELSE IF ButtonClicked THEN suggestions.items[clicked]
    ELSE None

\* "if user_prompt:"
PromptGiven == user_prompt # None /\ user_prompt # ""

\* a run in which len(st.session_state.suggestions) raises TypeError
UncaughtException ==
    /\ ReachesChat
    /\ ButtonsShown /\ ~HasLen(suggestions)
    /\ pc' = "exception"
    /\ ResetTriggers
    /\ UNCHANGED <<messages, active_group_id, suggestions,
                   last_fetched_group_id, API_KEY_CONFIGURED, remote_calls,
                   suggested_for, answered_with>>

\* Turn with the transcript rebuilt from the welcome turn and the new turns
Turn_drops_history ==
    /\ ReachesChat
    /\ ~(ButtonsShown /\ ~HasLen(suggestions))
    /\ PromptGiven
    /\ suggestions' = PyList(<<>>)
    /\ \E reply \in AnswerReplies :
           messages' = <<messages[1]>> \o
               <<[role |-> "user", content |-> Content("{}", user_prompt)],
                 [role |-> "assistant",
                  content |-> generate_response(user_prompt, current_urls,
                                                reply)]>>
    /\ CallRemote
    /\ answered_with' = current_urls
    /\ pc' = "run"
    /\ ResetTriggers
    /\ UNCHANGED <<active_group_id, last_fetched_group_id,
                   API_KEY_CONFIGURED, suggested_for>>

\* Turn with generate_response letting the remote failure through
Turn_propagates_failure ==
    /\ ReachesChat
    /\ ~(ButtonsShown /\ ~HasLen(suggestions))
    /\ PromptGiven
    /\ suggestions' = PyList(<<>>)
    /\ \E reply \in AnswerReplies :
           IF reply.raises
           THEN /\ messages' = Append(messages,
                       [role |-> "user", content |-> Content("{}", user_prompt)])
                /\ pc' = "exception"
           ELSE /\ messages' = messages \o
                       <<[role |-> "user",
                          content |-> Content("{}", user_prompt)],
                         [role |-> "assistant",
                          content |-> generate_response(user_prompt,
                                                        current_urls, reply)]>>
                /\ pc' = "run"
    /\ CallRemote
    /\ answered_with' = current_urls
    /\ ResetTriggers
    /\ UNCHANGED <<active_group_id, last_fetched_group_id,
                   API_KEY_CONFIGURED, suggested_for>>

\* a run that processes a question
Turn ==
    /\ ReachesChat
    /\ ~(ButtonsShown /\ ~HasLen(suggestions))
    /\ PromptGiven
    /\ suggestions' = PyList(<<>>)
    /\ \E reply \in AnswerReplies :
           messages' = messages \o
               <<[role |-> "user", content |-> Content("{}", user_prompt)],
                 [role |-> "assistant",
                  content |-> generate_response(user_prompt, current_urls,
                                                reply)]>>
    /\ CallRemote
    /\ answered_with' = current_urls
    /\ pc' = "run"
    /\ ResetTriggers
    /\ UNCHANGED <<active_group_id, last_fetched_group_id,
                   API_KEY_CONFIGURED, suggested_for>>

\* a run that reaches the end of the script without a question
EndOfScript ==
    /\ ReachesChat
    /\ ~(ButtonsShown /\ ~HasLen(suggestions))
    /\ ~PromptGiven
    /\ suggestions' = IF ButtonClicked THEN PyList(<<>>) ELSE suggestions
    /\ pc' = "rest"
    /\ ResetTriggers
    /\ UNCHANGED <<messages, active_group_id, last_fetched_group_id,
                   API_KEY_CONFIGURED, remote_calls, suggested_for,
                   answered_with>>

Run == ScopeChanged \/ SuggestionLoad \/ UncaughtException \/ Turn
           \/ EndOfScript

----------------------------------------------------------------------------
(* User interactions; each one triggers a run *)

\* the radio in the sidebar, bound to the key 'active_group_id'
SelectGroup(g) ==
    /\ pc \in {"rest", "exception"}
    /\ g # active_group_id
    /\ active_group_id' = g
    /\ pc' = "run"
    /\ interaction' = "radio"
    /\ remote_calls' = 0
    /\ UNCHANGED <<messages, suggestions, last_fetched_group_id,
                   API_KEY_CONFIGURED, clicked, prompt_from_chat,
                   suggested_for, answered_with>>

\* st.button(suggestion, key=f"suggestion_{i}")
ClickSuggestion(i) ==
    /\ pc = "rest"
    /\ ButtonsShown
    /\ i \in 1..Len(suggestions.items)
    /\ clicked' = i
    /\ pc' = "run"
    /\ interaction' = "button"
    /\ remote_calls' = 0
    /\ UNCHANGED <<messages, active_group_id, suggestions,
                   last_fetched_group_id, API_KEY_CONFIGURED,
                   prompt_from_chat, suggested_for,
                   answered_with>>

TypedQuestions == {"Q"}

\* st.chat_input(..., disabled=not API_KEY_CONFIGURED)
SubmitChat(q) ==
    /\ pc = "rest"
    /\ API_KEY_CONFIGURED
    /\ Len(messages) < 1 + 2 * MaxQuestions
    /\ prompt_from_chat' = q
    /\ pc' = "run"
    /\ interaction' = "chat_input"
    /\ remote_calls' = 0
    /\ UNCHANGED <<messages, active_group_id, suggestions,
                   last_fetched_group_id, API_KEY_CONFIGURED, clicked,
                   suggested_for, answered_with>>

\* a button click and a chat submission that reach the script in the same
\* run (two widget changes delivered together): st.button returns True and
\* st.chat_input returns the text
ClickAndSubmit(i, q) ==
    /\ pc = "rest"
    /\ ButtonsShown
    /\ i \in 1..Len(suggestions.items)
    /\ API_KEY_CONFIGURED
    /\ Len(messages) < 1 + 2 * MaxQuestions
    /\ clicked' = i
    /\ prompt_from_chat' = q
    /\ pc' = "run"
    /\ interaction' = "button+chat_input"
    /\ remote_calls' = 0
    /\ UNCHANGED <<messages, active_group_id, suggestions,
                   last_fetched_group_id, API_KEY_CONFIGURED, suggested_for,
                   answered_with>>

Next ==
    \/ ScopeChanged
    \/ SuggestionLoad
    \/ UncaughtException
    \/ Turn
    \/ EndOfScript
    \/ \E g \in GroupIds : SelectGroup(g)
    \/ \E i \in 1..(MaxSuggestions + 1) : ClickSuggestion(i)
    \/ \E q \in TypedQuestions : SubmitChat(q)
    \/ \E i \in 1..(MaxSuggestions + 1), q \in TypedQuestions :
           ClickAndSubmit(i, q)

Spec == Init /\ [][Next]_vars

\* the script runner always executes a run that is due
FairSpec == Spec /\ WF_vars(Run)

----------------------------------------------------------------------------
(* Properties *)

EmptyList == PyList(<<>>)

LastTurn == messages[Len(messages)]

\* the run due will process a question: it reaches the turn-processing
\* block with a non-empty user_prompt
QuestionAsked == ReachesChat /\ PromptGiven

\* C1: within one scope, once a question has been asked (the transcript is
\* longer than the welcome turn) the suggestion set is empty, so it is never
\* loaded again in that scope.
C1_NeverRepopulates ==
    (active_group_id = last_fetched_group_id /\ Len(messages) > 1)
        => ~Truthy(suggestions)

C3_ScopeChangeReseeds ==
    [][(pc = "run" /\ active_group_id # last_fetched_group_id) =>
          /\ Len(messages') = 1
          /\ messages'[1].role = "assistant"
          /\ messages'[1].content.arg =
                 INITIAL_URL_GROUPS[active_group_id'].name
          /\ suggestions' = EmptyList
          /\ last_fetched_group_id' = active_group_id']_vars

\* the scope has just changed to the second group, after suggestions had
\* been loaded for the first one
C3_Witness ==
    /\ pc = "run"
    /\ last_fetched_group_id = "model-capabilities"
    /\ active_group_id = "model-capabilities"
    /\ messages = <<WelcomeTurn("Model Capabilities")>>
    /\ suggestions = EmptyList
    /\ suggested_for = GEMINI_DOCS_URLS

\* C4: with the API key configured, every chain of forced reruns stops, also
\* when the suggestion call fails or yields nothing: a run that is due is
\* eventually followed by a run that ends (at rest or with the exception
\* shown).
C4_RerunsStop ==
    [](pc = "run" /\ API_KEY_CONFIGURED
           => <>(pc \in {"rest", "exception"}))

\* C5: between a user interaction and the next state in which the app
\* waits for input, at most one generate_content call is made.
C5_AtMostOneCall == interaction # "open" => remote_calls <= 1

\* C6: the value get_initial_suggestions returns, and so the value held in
\* st.session_state.suggestions, is always a list.
C6_AlwaysList == suggestions.type = "list"

\* C7: st.session_state.suggestions never holds more than 3 entries.
C7_AtMostThree == Len(suggestions.items) <= 3

\* C8: without the API key no remote call is made, no suggestion is ever
\* loaded, no button click or chat input reaches a run, no run dies, and
\* once the scope is resolved the transcript is the single welcome turn of
\* the active group.
C8_NoKeyNoRemote ==
    ~API_KEY_CONFIGURED =>
        /\ remote_calls = 0
        /\ suggestions = EmptyList
        /\ suggested_for = <<>>
        /\ clicked = 0
        /\ prompt_from_chat = None
        /\ pc # "exception"
        /\ active_group_id = last_fetched_group_id
               => messages = <<WelcomeTurn(active_group_name)>>

\* without the key, the user has switched to the second group and the app
\* is at rest again
C8_Witness ==
    /\ ~API_KEY_CONFIGURED
    /\ pc = "rest"
    /\ active_group_id = "model-capabilities"
    /\ last_fetched_group_id = "model-capabilities"

\* the last run appended the error text as an assistant turn after the
\* user turn of the question
ErrorTurnAppended ==
    /\ pc = "run"
    /\ Len(messages) > 2
    /\ LastTurn.role = "assistant"
    /\ LastTurn.content.fmt = ErrorPrefix
    /\ messages[Len(messages) - 1].role = "user"

\* C9: when the remote call raises while a question is processed, the run
\* appends the user turn and then an assistant turn holding the error text,
\* and the session goes on to accept further questions: the app comes to
\* rest again.
C9_ErrorTurnThenAccepts ==
    /\ [][QuestionAsked =>
            /\ pc' = "run"
            /\ Len(messages') = Len(messages) + 2
            /\ messages'[Len(messages) + 1].role = "user"
            /\ messages'[Len(messages) + 1].content.arg = user_prompt
            /\ messages'[Len(messages) + 2].role = "assistant"
            /\ messages'[Len(messages) + 2].content.fmt
                   \in {ErrorPrefix, "{}"}]_vars
    /\ [](ErrorTurnAppended => <>(pc = "rest"))

\* C10: whenever the suggestion buttons are shown for the resolved scope,
\* the suggestion set is the result of a suggestion call made with the urls
\* of the active group.
C10_SuggestionsNotStale ==
    (active_group_id = last_fetched_group_id /\ ButtonsShown)
        => suggested_for = current_urls

\* the buttons of the second group are shown after a switch from the first,
\* for which suggestions had been shown too
C10_Witness ==
    /\ pc = "rest"
    /\ ButtonsShown /\ HasLen(suggestions)
    /\ active_group_id = "model-capabilities"
    /\ last_fetched_group_id = "model-capabilities"
    /\ suggested_for = MODEL_CAPABILITIES_URLS

\* C11: with the API key configured, a question is processed in a scope
\* only after a suggestion-load attempt made for that scope: whenever a run
\* is about to process a question, or the transcript of the resolved scope
\* already holds one, the last suggestion call was made with the urls of the
\* active group.
C11_LoadBeforeQuestion ==
    (/\ API_KEY_CONFIGURED
     /\ active_group_id = last_fetched_group_id
     /\ (QuestionAsked \/ Len(messages) > 1))
        => suggested_for = current_urls

\* a typed question is about to be processed as the first question of the
\* second group, to which the user has switched from the first
C11_Witness ==
    /\ QuestionAsked
    /\ prompt_from_chat # None
    /\ Len(messages) = 1
    /\ active_group_id = "model-capabilities"
    /\ suggested_for = MODEL_CAPABILITIES_URLS

\* C12: the transcript is append-only within a scope: every step other than
\* the run that takes the scope-change block keeps the turns it finds as a
\* prefix of the transcript it leaves.
C12_AppendOnly ==
    [][~(pc = "run" /\ active_group_id # last_fetched_group_id)
          => /\ Len(messages') >= Len(messages)
             /\ SubSeq(messages', 1, Len(messages)) = messages]_vars

\* the second question of a scope has been appended behind the turns of the
\* first one, in the second group
C12_Witness ==
    /\ Len(messages) = 5
    /\ pc = "run"
    /\ active_group_id = "model-capabilities"
    /\ last_fetched_group_id = "model-capabilities"

Role(i) == IF i % 2 = 1 THEN "assistant" ELSE "user"

\* C13: whenever a run has reached the end of the script, the scope is
\* resolved, the transcript starts with the welcome turn of the active
\* group, its roles alternate assistant, user, assistant, ..., and it ends
\* with an assistant turn (odd length).
C13_RestShape ==
    pc = "rest" =>
        /\ last_fetched_group_id = active_group_id
        /\ messages # <<>>
        /\ messages[1] = WelcomeTurn(active_group_name)
        /\ \A i \in 1..Len(messages) : messages[i].role = Role(i)
        /\ Len(messages) % 2 = 1
        /\ LastTurn.role = "assistant"

\* at rest in the second group after two questions, one of them answered
\* with the error text
C13_Witness ==
    /\ pc = "rest"
    /\ active_group_id = "model-capabilities"
    /\ Len(messages) = 5
    /\ \E i \in 1..Len(messages) : messages[i].content.fmt = ErrorPrefix

UserTurns(msgs) == {i \in 1..Len(msgs) : msgs[i].role = "user"}

\* C14: a button click reaches a run only while the transcript holds at most
\* the welcome turn, so a clicked suggestion is processed as the first
\* question of the scope; and a run that processes a question appends
\* exactly one user turn, which carries the typed input when there is one
\* and the clicked suggestion otherwise.
C14_OneQuestionPerRun ==
    /\ [](clicked # 0 => Len(messages) <= 1)
    /\ [][QuestionAsked =>
            /\ Cardinality(UserTurns(messages')) =
                   Cardinality(UserTurns(messages)) + 1
            /\ Len(messages') = Len(messages) + 2
            /\ messages'[Len(messages) + 1].content.arg =
                   (IF prompt_from_chat # None THEN prompt_from_chat
                    ELSE suggestions.items[clicked])
            /\ clicked # 0 => Cardinality(UserTurns(messages)) = 0]_vars

\* a run that found both a clicked suggestion and a typed input has
\* processed the typed input as the only question
C14_Witness ==
    /\ interaction = "button+chat_input"
    /\ pc = "run"
    /\ Len(messages) = 3
    /\ messages[2] = [role |-> "user", content |-> Content("{}", "Q")]
    /\ suggestions = EmptyList

\* C15: a run that processes a question leaves active_group_id and
\* last_fetched_group_id alone and makes its answer call with the urls of
\* the group active in that run; a run that takes the scope-change block
\* makes no remote call.
C15_TurnFrame ==
    [][/\ QuestionAsked =>
            /\ active_group_id' = active_group_id
            /\ last_fetched_group_id' = last_fetched_group_id
            /\ answered_with' = INITIAL_URL_GROUPS[active_group_id].urls
            /\ suggested_for' = suggested_for
       /\ (pc = "run" /\ active_group_id # last_fetched_group_id) =>
            /\ remote_calls' = remote_calls
            /\ suggested_for' = suggested_for
            /\ answered_with' = answered_with]_vars

\* after a switch to the second group, a question has been answered with
\* the urls of that group
C15_Witness ==
    /\ pc = "run"
    /\ active_group_id = "model-capabilities"
    /\ last_fetched_group_id = "model-capabilities"
    /\ Len(messages) = 3
    /\ answered_with = MODEL_CAPABILITIES_URLS
    /\ remote_calls = 1

====
